---- MODULE Spec2Model ----
(***************************************************************************)
(* HestonProcess (ql/processes/hestonprocess.cpp): the square-root         *)
(* stochastic-volatility process, its eight observed inputs, and the       *)
(* primitives size / initialValues / drift / diffusion / apply / time.     *)
(*                                                                         *)
(* Real is double.  A Real is modelled as a binary floating-point number   *)
(* s * m * 2^e that is rounded to nearest-even after every operation, has  *)
(* double's exponent range (gradual underflow down to 2^TinyExp, overflow  *)
(* to infinity at 2^MaxExp) and MantBits bits of precision (double: 53),   *)
(* plus the infinities and NaN.  Signed zeros are not distinguished.       *)
(***************************************************************************)
EXTENDS Integers, Sequences, FiniteSets, TLC

\* bits of precision of a Real in the model
MantBits == 8
\* number of evolve steps of a simulated path
MaxSteps == 3

\* double: finite values are below 2^1024, the smallest positive one is 2^-1074
MaxExp == 1024
TinyExp == -1074

Max(a, b) == IF a >= b THEN a ELSE b

RECURSIVE BitLen(_)
BitLen(m) == IF m = 0 THEN 0 ELSE 1 + BitLen(m \div 2)

RECURSIVE ISqrt(_)
ISqrt(n) == IF n < 2 THEN n
            ELSE LET s == 2 * ISqrt(n \div 4)
                 IN  IF (s + 1) * (s + 1) <= n THEN s + 1 ELSE s

Zero == [k |-> "fin", s |-> 1, m |-> 0, e |-> 0]
NaN == [k |-> "nan", s |-> 1, m |-> 0, e |-> 0]
Inf(sg) == [k |-> "inf", s |-> sg, m |-> 0, e |-> 0]

\* the canonical form of sg * m * 2^e (odd mantissa); overflow gives infinity
RECURSIVE Canon(_, _, _)
Canon(sg, m, e) ==
    IF m = 0 THEN Zero
    ELSE IF m % 2 = 0 THEN Canon(sg, m \div 2, e + 1)
    ELSE IF BitLen(m) + e > MaxExp THEN Inf(sg)
    ELSE [k |-> "fin", s |-> sg, m |-> m, e |-> e]

\* sg * m * 2^e rounded to nearest, ties to even, at MantBits bits and not
\* below 2^TinyExp
Round(sg, m, e) ==
    LET L  == BitLen(m)
        sh == Max(Max(L - MantBits, TinyExp - e), 0)
    IN  IF m = 0 THEN Zero
        ELSE IF sh = 0 THEN Canon(sg, m, e)
        ELSE IF sh > L + 1 THEN Zero
        ELSE LET q    == m \div (2 ^ sh)
                 r    == m % (2 ^ sh)
                 half == 2 ^ (sh - 1)
                 up   == r > half \/ (r = half /\ q % 2 = 1)
             IN  Canon(sg, IF up THEN q + 1 ELSE q, e + sh)

\* the Real nearest to sg * m * 2^e
Mk(sg, m, e) == Round(sg, m, e)

One == Mk(1, 1, 0)
Half == Mk(1, 1, -1)

IsZero(a) == a.k = "fin" /\ a.m = 0
IsFinite(a) == a.k = "fin"
FNeg(a) == IF a.k = "nan" \/ IsZero(a) THEN a ELSE [a EXCEPT !.s = -a.s]
\* a > 0.0, a < 0.0, a <= 0.0 (each false of NaN)
FGt0(a) == a.k # "nan" /\ a.s = 1 /\ ~IsZero(a)
FLt0(a) == a.k # "nan" /\ a.s = -1 /\ ~IsZero(a)
FLe0(a) == a.k # "nan" /\ (a.s = -1 \/ IsZero(a))

\* a * b
FMul(a, b) ==
    IF a.k = "nan" \/ b.k = "nan" THEN NaN
    ELSE IF a.k = "inf" \/ b.k = "inf"
         THEN IF IsZero(a) \/ IsZero(b) THEN NaN ELSE Inf(a.s * b.s)
    ELSE Round(a.s * b.s, a.m * b.m, a.e + b.e)

\* position of the leading bit of a finite nonzero Real
Top(a) == BitLen(a.m) + a.e

\* hi + lo for finite nonzero Reals, hi the one with the higher leading bit;
\* a lo too small to reach the rounding position only leaves a sticky bit
AddFin(hi, lo) ==
    IF Top(hi) - Top(lo) > MantBits + 2
    THEN LET m1 == hi.m * 2 ^ (MantBits + 3)
         IN  Round(hi.s, IF lo.s = hi.s THEN m1 + 1 ELSE m1 - 1,
                   hi.e - (MantBits + 3))
    ELSE LET e0 == IF hi.e <= lo.e THEN hi.e ELSE lo.e
             v  == hi.s * hi.m * 2 ^ (hi.e - e0) + lo.s * lo.m * 2 ^ (lo.e - e0)
         IN  IF v >= 0 THEN Round(1, v, e0) ELSE Round(-1, -v, e0)

\* a + b
FAdd(a, b) ==
    IF a.k = "nan" \/ b.k = "nan" THEN NaN
    ELSE IF a.k = "inf" /\ b.k = "inf" THEN (IF a.s = b.s THEN a ELSE NaN)
    ELSE IF a.k = "inf" THEN a
    ELSE IF b.k = "inf" THEN b
    ELSE IF IsZero(a) THEN b
    ELSE IF IsZero(b) THEN a
    ELSE IF Top(a) >= Top(b) THEN AddFin(a, b) ELSE AddFin(b, a)

\* a - b
FSub(a, b) == FAdd(a, FNeg(b))

\* <<m1, e1>> with m1 * 2^e1 = m * 2^e, e1 even and m1 of at least
\* 2 * MantBits + 3 bits
RECURSIVE Widen(_, _)
Widen(m, e) == IF BitLen(m) >= 2 * MantBits + 3 /\ e % 2 = 0 THEN <<m, e>>
               ELSE Widen(2 * m, e - 1)

\* std::sqrt(a), correctly rounded
FSqrt(a) ==
    IF a.k = "nan" THEN NaN
    ELSE IF IsZero(a) THEN Zero
    ELSE IF a.s = -1 THEN NaN
    ELSE IF a.k = "inf" THEN a
    ELSE LET w  == Widen(a.m, a.e)
             r  == ISqrt(w[1])
             st == IF r * r = w[1] THEN 0 ELSE 1
         IN  Round(1, 2 * r + st, (w[2] \div 2) - 1)

\* the arguments of std::exp that occur: 1, -1, 800, -800
ExpArgs == {Mk(1, 1, 0), Mk(-1, 1, 0), Mk(1, 25, 5), Mk(-1, 25, 5)}

\* e^a truncated to 22 bits, as <<m, e>> with m * 2^e <= e^a < (m + 1) * 2^e
ExpDigits(a) ==
    CASE a = Mk(1, 1, 0)   -> <<2850325, -20>>
      [] a = Mk(-1, 1, 0)  -> <<3085996, -23>>
      [] a = Mk(1, 25, 5)  -> <<2336686, 1133>>
      [] a = Mk(-1, 25, 5) -> <<3764344, -1176>>

\* std::exp(a), correctly rounded: exp(800) overflows to infinity and
\* exp(-800) underflows to zero
FExp(a) ==
    IF a.k = "nan" THEN NaN
    ELSE IF a.k = "inf" THEN (IF a.s = 1 THEN a ELSE Zero)
    ELSE IF IsZero(a) THEN One
    ELSE LET d == ExpDigits(a) IN Round(1, 2 * d[1] + 1, d[2] - 1)


(***************************************************************************)
(* The inputs of the process and the values they take.                     *)
(***************************************************************************)

\* the eight objects the constructor registers with (lines 42-49)
Inputs == {"riskFreeRate", "dividendYield", "s0", "v0", "kappa", "theta",
           "sigma", "rho"}
\* the inputs that are handles supplied by the caller, possibly empty
HandleInputs == {"riskFreeRate", "dividendYield", "s0"}
\* the inputs that hold a quote value
QuoteInputs == {"s0", "v0", "kappa", "theta", "sigma", "rho"}

\* a handle: empty, or linked to an object
Empty == <<>>
Link(o) == <<o>>
IsEmpty(h) == h = Empty
Pointee(h) == h[1]

\* times and dates handed to the process
Times == {0, 1}
Dates == {0, 365}

\* yield curves: a reference date and the instantaneous forward rate at
\* time 0 and after it
FlatCurve == [referenceDate |-> 0, fwd |-> <<Mk(1, 1, -5), Mk(1, 1, -5)>>]
SlopedCurve == [referenceDate |-> 0, fwd |-> <<Mk(1, 1, -5), Mk(1, 1, -4)>>]
ZeroCurve == [referenceDate |-> 0, fwd |-> <<Zero, Zero>>]

forwardRate(c, t) == IF t = 0 THEN c.fwd[1] ELSE c.fwd[2]
yearFraction(d1, d2) == <<"yearFraction", d1, d2>>

\* the observers that may register with the process
Observers == {"o1", "o2"}

\* outcomes of a call: a value, the error of dereferencing an empty handle,
\* or the crash an out-of-bounds read may end in
Ok(v) == [status |-> "ok", value |-> v]
Raise == [status |-> "empty_handle", value |-> <<>>]
Fault == [status |-> "fault", value |-> <<>>]

\* what an out-of-bounds read of an Array may yield
Garbage == {Zero, Mk(-1, 1, 0), Mk(1, 1, 0)}

VARIABLES pc, riskFreeRate_, dividendYield_, s0_, v0_, kappa_, theta_,
          sigma_, rho_, registered, observers, notified, ctor, call, path,
          steps

handles == <<riskFreeRate_, dividendYield_, s0_>>
params == <<v0_, kappa_, theta_, sigma_, rho_>>
vars == <<pc, riskFreeRate_, dividendYield_, s0_, v0_, kappa_, theta_,
          sigma_, rho_, registered, observers, notified, ctor, call, path,
          steps>>

(***************************************************************************)
(* The primitives, as functions of their arguments and the current inputs. *)
(***************************************************************************)

\* Handle::operator-> : dereferencing an empty handle raises
Deref(h, r) == IF IsEmpty(h) THEN Raise ELSE r

\* Array::operator[] is unchecked: x[i] (0-based) past the end reads g
At(x, i, g) == IF i + 1 <= Len(x) THEN x[i + 1] ELSE g

size == Ok(2)

\* initialValues answering from the values seen by the constructor
initialValuesCached ==
    Deref(s0_, Ok(<<IF IsEmpty(ctor[1]) THEN Zero ELSE Pointee(ctor[1]),
                    ctor[2]>>))

initialValues ==
    Deref(s0_, Ok(<<Pointee(s0_), v0_>>))

\* drift with the raw variance in the mean reversion
driftNoFloor(t, x, g) ==
    LET x1  == At(x, 1, g)
        vol == IF FGt0(x1) THEN FSqrt(x1) ELSE Zero
    IN  Deref(riskFreeRate_, Deref(dividendYield_,
          Ok(<<FSub(FSub(forwardRate(Pointee(riskFreeRate_), t),
                         forwardRate(Pointee(dividendYield_), t)),
                    FMul(FMul(Half, vol), vol)),
               FMul(kappa_, FSub(theta_, x1))>>)))

drift(t, x, g) ==
    LET x1  == At(x, 1, g)
        vol == IF FGt0(x1) THEN FSqrt(x1) ELSE Zero
    IN  Deref(riskFreeRate_, Deref(dividendYield_,
          Ok(<<FSub(FSub(forwardRate(Pointee(riskFreeRate_), t),
                         forwardRate(Pointee(dividendYield_), t)),
                    FMul(FMul(Half, vol), vol)),
               FMul(kappa_, FSub(theta_, FMul(vol, vol)))>>)))

\* diffusion with sqrt(1 - rho) for sqrt(1 - rho^2)
diffusionNoSquare(t, x, g) ==
    LET rho    == rho_
        x1     == At(x, 1, g)
        sigma1 == IF FGt0(x1) THEN FSqrt(x1) ELSE Zero
        sigma2 == FMul(sigma_, sigma1)
    IN  Ok(<< <<sigma1, Zero>>,
              <<FMul(rho, sigma2),
                FMul(FSqrt(FSub(One, rho)), sigma2)>> >>)

diffusion(t, x, g) ==
    LET rho    == rho_
        x1     == At(x, 1, g)
        sigma1 == IF FGt0(x1) THEN FSqrt(x1) ELSE Zero
        sigma2 == FMul(sigma_, sigma1)
    IN  Ok(<< <<sigma1, Zero>>,
              <<FMul(rho, sigma2),
                FMul(FSqrt(FSub(One, FMul(rho, rho))), sigma2)>> >>)

\* apply without the exponential
applyNoExp(x0, dx, g) ==
    Ok(<<FMul(At(x0, 0, g), At(dx, 0, g)),
         FAdd(At(x0, 1, g), At(dx, 1, g))>>)

\* apply with an additive price update
applyAdditive(x0, dx, g) ==
    Ok(<<FAdd(At(x0, 0, g), At(dx, 0, g)),
         FAdd(At(x0, 1, g), At(dx, 1, g))>>)

\* apply with the variance floored at zero
applyClamped(x0, dx, g) ==
    LET v == FAdd(At(x0, 1, g), At(dx, 1, g))
    IN  Ok(<<FMul(At(x0, 0, g), FExp(At(dx, 0, g))),
             IF FGt0(v) THEN v ELSE Zero>>)

apply(x0, dx, g) ==
    Ok(<<FMul(At(x0, 0, g), FExp(At(dx, 0, g))),
         FAdd(At(x0, 1, g), At(dx, 1, g))>>)

\* time measured on the dividend curve
timeDividend(d) ==
    Deref(dividendYield_,
          Ok(yearFraction(Pointee(dividendYield_).referenceDate, d)))

time(d) ==
    Deref(riskFreeRate_,
          Ok(yearFraction(Pointee(riskFreeRate_).referenceDate, d)))

\* the accessors return the live handle
accessor(i) ==
    CASE i = "riskFreeRate"  -> Ok(riskFreeRate_)
      [] i = "dividendYield" -> Ok(dividendYield_)
      [] i = "s0"            -> Ok(s0_)
      [] i = "v0"            -> Ok(Link(v0_))
      [] i = "kappa"         -> Ok(Link(kappa_))
      [] i = "theta"         -> Ok(Link(theta_))
      [] i = "sigma"         -> Ok(Link(sigma_))
      [] i = "rho"           -> Ok(Link(rho_))

\* a call reads its arrays xs at indices 0 and 1: the values a read past
\* the end may yield (none is read when every array has two components),
\* and the crash it may end in
Reads(xs) == IF \A i \in 1..Len(xs) : Len(xs[i]) >= 2 THEN {Zero} ELSE Garbage
Crash(xs) == IF \A i \in 1..Len(xs) : Len(xs[i]) >= 2 THEN {} ELSE {Fault}

\* the record of the last operation: its name, its arguments before and
\* after the call, and its outcome
Call(op, args, after, out) ==
    [op |-> op, args |-> args, after |-> after, status |-> out.status,
     value |-> out.value]


(***************************************************************************)
(* The operations.  Every operation records itself in call and the set of  *)
(* parties it notified in notified.                                        *)
(***************************************************************************)

\* Observable::notifyObservers on input i reaches the process when the
\* process is registered with i; StochasticProcess::update then notifies
\* every observer of the process, all within the call that changed i
Notify(i) == IF i \in registered THEN {"process"} \cup observers ELSE {}

\* a constructor that leaves out registerWith(rho_)
registerWithSeven == Inputs \ {"rho"}

\* HestonProcess::HestonProcess: the handles are copied, the five scalars
\* are wrapped into quotes, and the process registers with all eight
registerWith == Inputs

Construct ==
    /\ pc = "new"
    /\ pc' = "live"
    /\ registered' = registerWith
    /\ ctor' = <<s0_, v0_>>
    /\ notified' = {}
    /\ call' = Call("construct", <<handles, params>>, <<handles, params>>,
                    Ok(<<>>))
    /\ UNCHANGED <<handles, params, observers, path, steps>>

\* an observer registers with the process
RegisterObserver(o) ==
    /\ pc = "live"
    /\ observers' = observers \cup {o}
    /\ notified' = {}
    /\ call' = Call("registerObserver", <<o>>, <<o>>, Ok(<<>>))
    /\ UNCHANGED <<pc, handles, params, registered, ctor, path, steps>>

\* SimpleQuote::setValue(v) on the quote behind input i
SetValue(i, v) ==
    /\ pc = "live"
    /\ i = "s0" => ~IsEmpty(s0_)
    /\ s0_' = IF i = "s0" THEN Link(v) ELSE s0_
    /\ v0_' = IF i = "v0" THEN v ELSE v0_
    /\ kappa_' = IF i = "kappa" THEN v ELSE kappa_
    /\ theta_' = IF i = "theta" THEN v ELSE theta_
    /\ sigma_' = IF i = "sigma" THEN v ELSE sigma_
    /\ rho_' = IF i = "rho" THEN v ELSE rho_
    /\ notified' = Notify(i)
    /\ call' = Call("setValue", <<i, v>>, <<i, v>>, Ok(<<>>))
    /\ UNCHANGED <<pc, riskFreeRate_, dividendYield_, registered, observers,
                   ctor, path, steps>>

\* RelinkableHandle::linkTo(o) by the owner of the handle behind input i
LinkTo(i, o) ==
    /\ pc = "live"
    /\ riskFreeRate_' = IF i = "riskFreeRate" THEN Link(o) ELSE riskFreeRate_
    /\ dividendYield_' = IF i = "dividendYield" THEN Link(o) ELSE dividendYield_
    /\ s0_' = IF i = "s0" THEN Link(o) ELSE s0_
    /\ notified' = Notify(i)
    /\ call' = Call("linkTo", <<i, o>>, <<i, o>>, Ok(<<>>))
    /\ UNCHANGED <<pc, params, registered, observers, ctor, path, steps>>

Size ==
    /\ pc = "live"
    /\ call' = Call("size", <<>>, <<>>, size)
    /\ notified' = {}
    /\ UNCHANGED <<pc, handles, params, registered, observers, ctor, path,
                   steps>>

InitialValues ==
    /\ pc = "live"
    /\ call' = Call("initialValues", <<>>, <<>>, initialValues)
    /\ notified' = {}
    /\ UNCHANGED <<pc, handles, params, registered, observers, ctor, path,
                   steps>>

Drift(t, x) ==
    /\ pc = "live"
    /\ \E out \in {drift(t, x, g) : g \in Reads(<<x>>)} \cup Crash(<<x>>) :
          call' = Call("drift", <<t, x>>, <<t, x>>, out)
    /\ notified' = {}
    /\ UNCHANGED <<pc, handles, params, registered, observers, ctor, path,
                   steps>>

Diffusion(t, x) ==
    /\ pc = "live"
    /\ \E out \in {diffusion(t, x, g) : g \in Reads(<<x>>)}
                       \cup Crash(<<x>>) :
          call' = Call("diffusion", <<t, x>>, <<t, x>>, out)
    /\ notified' = {}
    /\ UNCHANGED <<pc, handles, params, registered, observers, ctor, path,
                   steps>>

\* Apply writing its result into x0
ApplyInPlace(x0, dx) ==
    /\ pc = "live"
    /\ \E out \in {apply(x0, dx, g) : g \in Reads(<<x0, dx>>)}
                       \cup Crash(<<x0, dx>>) :
          call' = Call("apply", <<x0, dx>>, <<out.value, dx>>, out)
    /\ notified' = {}
    /\ UNCHANGED <<pc, handles, params, registered, observers, ctor, path,
                   steps>>

Apply(x0, dx) ==
    /\ pc = "live"
    /\ \E out \in {apply(x0, dx, g) : g \in Reads(<<x0, dx>>)}
                       \cup Crash(<<x0, dx>>) :
          call' = Call("apply", <<x0, dx>>, <<x0, dx>>, out)
    /\ notified' = {}
    /\ UNCHANGED <<pc, handles, params, registered, observers, ctor, path,
                   steps>>

TimeOf(d) ==
    /\ pc = "live"
    /\ call' = Call("time", <<d>>, <<d>>, time(d))
    /\ notified' = {}
    /\ UNCHANGED <<pc, handles, params, registered, observers, ctor, path,
                   steps>>

Accessor(i) ==
    /\ pc = "live"
    /\ call' = Call("accessor", <<i>>, <<i>>, accessor(i))
    /\ notified' = {}
    /\ UNCHANGED <<pc, handles, params, registered, observers, ctor, path,
                   steps>>

\* the simulation takes its initial state from the process
Start ==
    /\ pc = "live"
    /\ path = <<>>
    /\ call' = Call("start", <<>>, <<>>, initialValues)
    /\ path' = initialValues.value
    /\ notified' = {}
    /\ UNCHANGED <<pc, handles, params, registered, observers, ctor, steps>>

\* step number steps of the simulation: drift and diffusion at the current
\* state, then apply with the increment dx the discretization assembled
\* from them; a failing drift ends the step and leaves the state where it
\* was
Evolve(dx) ==
    LET t == steps
        d == drift(t, path, Zero)
        M == diffusion(t, path, Zero)
        a == apply(path, dx, Zero)
    IN  /\ pc = "live"
        /\ path # <<>>
        /\ steps < MaxSteps
        /\ steps' = steps + 1
        /\ call' = IF d.status = "ok"
                   THEN Call("evolve", <<t, path, dx>>, <<t, path, dx>>,
                             Ok(<<d.value, M.value, a.value>>))
                   ELSE Call("evolve", <<t, path, dx>>, <<t, path, dx>>, d)
        /\ path' = IF d.status = "ok" THEN a.value ELSE path
        /\ notified' = {}
        /\ UNCHANGED <<pc, handles, params, registered, observers, ctor>>


(***************************************************************************)
(* Values the inputs and the arguments are drawn from.                     *)
(***************************************************************************)

\* 100 and 80
SpotValues == {Mk(1, 25, 2), Mk(1, 5, 4)}
\* 5/128 (about 0.04) and 1/16
V0Values == {Mk(1, 5, -7), Mk(1, 1, -4)}
\* 2 and -3/2
KappaValues == {Mk(1, 1, 1), Mk(-1, 3, -1)}
\* 5/128 and 1/4
ThetaValues == {Mk(1, 5, -7), Mk(1, 1, -2)}
\* 5/16 (about 0.3) and 3/2
SigmaValues == {Mk(1, 5, -4), Mk(1, 3, -1)}
\* -1, -5/8 (about -0.6), -1/2, 0, 3/8, 3/4, 1, and 3/2 outside [-1, 1]
RhoValues == {Mk(-1, 1, 0), Mk(-1, 5, -3), Mk(-1, 1, -1), Zero, Mk(1, 3, -3),
              Mk(1, 3, -2), Mk(1, 1, 0), Mk(1, 3, -1)}
RiskFreeCurves == {FlatCurve, SlopedCurve}
DividendCurves == {ZeroCurve}

\* variances: -1/4, -2^-1074, 0, 2^-1074, 5/128, 3/4, 2
Variances == {Mk(-1, 1, -2), Mk(-1, 1, TinyExp), Zero, Mk(1, 1, TinyExp),
              Mk(1, 5, -7), Mk(1, 3, -2), Mk(1, 1, 1)}
\* well-formed states [p, v]: the price 100 with each variance, the price
\* 2^-1074 with variance 3/4 and the price 80 with variance -1/4
States == {<<Mk(1, 25, 2), v>> : v \in Variances}
              \cup {<<Mk(1, 1, TinyExp), Mk(1, 3, -2)>>,
                    <<Mk(1, 5, 4), Mk(-1, 1, -2)>>}
\* arrays that are not of length 2
BadArrays == {<<>>, <<Mk(1, 25, 2)>>,
              <<Mk(1, 25, 2), Mk(1, 3, -2), Mk(1, 7, 0)>>,
              <<Mk(1, 25, 2), Mk(-1, 1, -2), Mk(1, 7, 0)>>}
\* increments [d0, d1]: d0 among 0, 1, -1, 800, -800, d1 among 0, -1/8
Increments == {<<d0, d1>> : d0 \in ExpArgs \cup {Zero},
                            d1 \in {Zero, Mk(-1, 1, -3)}}
\* increment arrays that are not of length 2
BadIncrements == {<<>>, <<Zero>>, <<Mk(1, 1, 0), Zero, Mk(1, 1, 0)>>}
\* the increments of a simulated path: d0 among 1, -1, 800, -800, d1 among
\* 1/8, -1/8
PathIncrements == {<<d0, d1>> : d0 \in ExpArgs,
                                d1 \in {Mk(1, 1, -3), Mk(-1, 1, -3)}}

\* the values setValue is called with in the life cycle below
ValuesOf(i) ==
    CASE i = "s0"    -> SpotValues
      [] i = "v0"    -> V0Values
      [] i = "kappa" -> {Mk(1, 1, 1), Mk(1, 3, -1)}
      [] i = "theta" -> {Mk(1, 5, -7)}
      [] i = "sigma" -> {Mk(1, 5, -4)}
      [] i = "rho"   -> {Mk(-1, 5, -3)}
\* the objects a handle is linked to
ObjectsOf(i) ==
    CASE i = "riskFreeRate"  -> {FlatCurve}
      [] i = "dividendYield" -> DividendCurves
      [] i = "s0"            -> {Mk(1, 25, 2)}
\* the arguments of the calls in the life cycle
SomeStates == {<<Mk(1, 25, 2), Mk(1, 5, -7)>>, <<Mk(1, 25, 2), Mk(-1, 1, -2)>>}
SomeIncrements == {<<Zero, Zero>>, <<Mk(-1, 25, 5), Mk(-1, 1, -3)>>}

NoCall == Call("none", <<>>, <<>>, Ok(<<>>))

(***************************************************************************)
(* Spec: the life of a process, from the constructor's arguments on.       *)
(***************************************************************************)
Init ==
    /\ pc = "new"
    /\ riskFreeRate_ \in {Empty, Link(FlatCurve)}
    /\ dividendYield_ \in {Empty, Link(ZeroCurve)}
    /\ s0_ \in {Empty, Link(Mk(1, 25, 2))}
    /\ v0_ = Mk(1, 5, -7)
    /\ kappa_ = Mk(1, 1, 1)
    /\ theta_ = Mk(1, 5, -7)
    /\ sigma_ = Mk(1, 5, -4)
    /\ rho_ = Mk(-1, 5, -3)
    /\ registered = {}
    /\ observers = {}
    /\ notified = {}
    /\ ctor = <<>>
    /\ call = NoCall
    /\ path = <<>>
    /\ steps = 0

Next ==
    \/ Construct
    \/ \E o \in Observers : RegisterObserver(o)
    \/ \E i \in QuoteInputs : \E v \in ValuesOf(i) : SetValue(i, v)
    \/ \E i \in HandleInputs : \E o \in ObjectsOf(i) : LinkTo(i, o)
    \/ Size
    \/ InitialValues
    \/ \E t \in Times : \E x \in SomeStates : Drift(t, x)
    \/ \E t \in Times : \E x \in SomeStates : Diffusion(t, x)
    \/ \E x0 \in SomeStates : \E dx \in SomeIncrements : Apply(x0, dx)
    \/ \E d \in Dates : TimeOf(d)
    \/ \E i \in Inputs : Accessor(i)

Spec == Init /\ [][Next]_vars

(***************************************************************************)
(* SpecFn: the primitives of a constructed process over a range of         *)
(* parameters and arguments.  A call leaves the process as it was, so each *)
(* behaviour makes one call.                                               *)
(***************************************************************************)
InitFn ==
    /\ pc = "live"
    /\ riskFreeRate_ \in {Empty} \cup {Link(c) : c \in RiskFreeCurves}
    /\ dividendYield_ \in {Empty} \cup {Link(c) : c \in DividendCurves}
    /\ s0_ = Link(Mk(1, 25, 2))
    /\ v0_ = Mk(1, 5, -7)
    /\ kappa_ \in KappaValues
    /\ theta_ \in ThetaValues
    /\ sigma_ \in SigmaValues
    /\ rho_ \in RhoValues
    /\ registered = registerWith
    /\ observers = {}
    /\ notified = {}
    /\ ctor = <<s0_, v0_>>
    /\ call = NoCall
    /\ path = <<>>
    /\ steps = 0

DriftFn ==
    /\ call = NoCall
    /\ \E t \in Times : \E x \in States \cup BadArrays : Drift(t, x)

DiffusionFn ==
    /\ call = NoCall
    /\ \E t \in Times : \E x \in States \cup BadArrays : Diffusion(t, x)

ApplyFn ==
    /\ call = NoCall
    /\ \E x0 \in States \cup BadArrays :
          \E dx \in Increments \cup BadIncrements : Apply(x0, dx)

NextFn ==
    \/ DriftFn
    \/ DiffusionFn
    \/ ApplyFn

SpecFn == InitFn /\ [][NextFn]_vars

(***************************************************************************)
(* SpecPath: a simulated path of a constructed process.                    *)
(***************************************************************************)
InitPath ==
    /\ pc = "live"
    /\ riskFreeRate_ \in {Empty, Link(FlatCurve)}
    /\ dividendYield_ = Link(ZeroCurve)
    /\ s0_ \in {Empty, Link(Mk(1, 25, 2))}
    /\ v0_ = Mk(1, 5, -7)
    /\ kappa_ = Mk(1, 1, 1)
    /\ theta_ = Mk(1, 5, -7)
    /\ sigma_ = Mk(1, 5, -4)
    /\ rho_ = Mk(-1, 5, -3)
    /\ registered = registerWith
    /\ observers = {}
    /\ notified = {}
    /\ ctor = <<s0_, v0_>>
    /\ call = NoCall
    /\ path = <<>>
    /\ steps = 0

NextPath ==
    \/ Start
    \/ \E dx \in PathIncrements : Evolve(dx)

SpecPath == InitPath /\ [][NextPath]_vars

(***************************************************************************)
(* Properties.                                                             *)
(***************************************************************************)

IsState(x) == Len(x) = 2
\* the variance drift and diffusion take the square root of
Floored(v) == IF FGt0(v) THEN v ELSE Zero
HandlesLinked == ~IsEmpty(riskFreeRate_) /\ ~IsEmpty(dividendYield_)
QueryOps == {"size", "initialValues", "drift", "diffusion", "apply", "time",
             "accessor"}

\* C1 as stated: for every state x with x[1] <= 0, drift(t,x) raises no
\* error and its component 1 is kappa*theta, and diffusion(t,x) raises no
\* error and its first row is zero, whatever the parameters are.
C1_FloorUnconditional ==
    /\ (call.op = "drift" /\ IsState(call.args[2]) /\ FLe0(call.args[2][2]))
          => (call.status = "ok" /\ call.value[2] = FMul(kappa_, theta_))
    /\ (call.op = "diffusion" /\ IsState(call.args[2])
            /\ FLe0(call.args[2][2]))
          => (call.status = "ok" /\ call.value[1] = <<Zero, Zero>>)

\* C1 amended: for every state x with x[1] <= 0, diffusion(t,x) raises no
\* error and its first row is zero; drift(t,x) raises no error and its
\* component 1 is kappa*theta provided the risk-free and dividend handles
\* are linked, and raises the empty-handle error otherwise.
C1_VarianceFloor ==
    /\ (call.op = "drift" /\ IsState(call.args[2]) /\ FLe0(call.args[2][2]))
          => IF HandlesLinked
             THEN call.status = "ok" /\ call.value[2] = FMul(kappa_, theta_)
             ELSE call.status = "empty_handle"
    /\ (call.op = "diffusion" /\ IsState(call.args[2])
            /\ FLe0(call.args[2][2]))
          => (call.status = "ok" /\ call.value[1] = <<Zero, Zero>>)

C1_Witness ==
    /\ call.op = "drift"
    /\ IsState(call.args[2])
    /\ FLt0(call.args[2][2])
    /\ call.status = "ok"
    /\ call.value[2] = FMul(kappa_, theta_)
    /\ ~IsZero(call.value[2])

\* C2: initialValues() returns [current spot value, current v0 value], the
\* values of the latest mutations and not those seen by the constructor
\* (and raises when the spot handle is empty).
C2_InitialValuesLive ==
    call.op = "initialValues"
        => IF IsEmpty(s0_) THEN call.status = "empty_handle"
           ELSE call.status = "ok" /\ call.value = <<Pointee(s0_), v0_>>

C2_Witness ==
    /\ call.op = "initialValues"
    /\ call.status = "ok"
    /\ ~IsEmpty(ctor[1])
    /\ Pointee(s0_) # Pointee(ctor[1])
    /\ v0_ # ctor[2]
    /\ call.value = <<Pointee(s0_), v0_>>

\* C3: once constructed the process is registered with all eight inputs,
\* and a setValue or linkTo on any of them notifies, within that call, the
\* process and every observer registered on the process.
C3_NotificationFanOut ==
    /\ pc = "live" => registered = Inputs
    /\ call.op \in {"setValue", "linkTo"}
          => notified = {"process"} \cup observers

C3_Witness ==
    /\ call.op = "setValue"
    /\ call.args[1] = "rho"
    /\ observers = Observers
    /\ notified = {"process"} \cup Observers

\* C4: apply(x0, [0,0]) returns x0 in both components, for every state x0,
\* a negative variance included.
C4_ZeroIncrementNoOp ==
    (call.op = "apply" /\ IsState(call.args[1])
        /\ call.args[2] = <<Zero, Zero>>)
        => (call.status = "ok" /\ call.value = call.args[1])

C4_Witness ==
    /\ call.op = "apply"
    /\ IsState(call.args[1])
    /\ FLt0(call.args[1][2])
    /\ call.args[2] = <<Zero, Zero>>
    /\ call.value = call.args[1]

\* the exact product of positive finite a and b is at least 2^TinyExp, the
\* smallest positive Real
ProductAtLeastTiny(a, b) == Top(a) + Top(b) - 2 >= TinyExp

\* C5 as stated: starting from a positive spot, the price component of the
\* state is strictly positive after any sequence of apply steps, whatever
\* the increments are.
C5_PriceAlwaysPositive ==
    path # <<>> => FGt0(path[1])

\* C5 amended: apply([p,v],[d0,d1])[0] is the product p*exp(d0) in double
\* arithmetic; starting from a positive spot the price is never negative, and
\* a step from a positive price gives a strictly positive price whenever
\* exp(d0) has not underflowed to zero and the exact product is at least
\* the smallest positive double (otherwise the price can become zero, and
\* NaN once an overflowed price meets an underflowed factor).
C5_PriceNotNegative ==
    /\ path # <<>> => ~FLt0(path[1])
    /\ (call.op = "evolve" /\ call.status = "ok")
          => LET p == call.args[2][1]
                 f == FExp(call.args[3][1])
                 r == call.value[3][1]
             IN  /\ r = FMul(p, f)
                 /\ path[1] = r
                 /\ (FGt0(p) /\ FGt0(f)
                      /\ (IsFinite(p) /\ IsFinite(f)
                             => ProductAtLeastTiny(p, f)))
                       => FGt0(r)

C5_Witness ==
    /\ call.op = "evolve"
    /\ call.status = "ok"
    /\ steps >= 2
    /\ call.args[3][1] = Mk(-1, 1, 0)
    /\ FGt0(path[1])
    /\ IsFinite(path[1])
    /\ path[1] # call.args[2][1]

\* C6: construction succeeds whatever handles are empty; afterwards drift
\* raises exactly when the risk-free or the dividend handle is empty,
\* initialValues exactly when the spot handle is empty, time exactly when
\* the risk-free handle is empty, and diffusion, apply and size never raise.
C6_EmptyHandleFailsAtUse ==
    /\ call.op = "construct" => (call.status = "ok" /\ pc = "live")
    /\ call.op = "drift"
          => (call.status = "empty_handle" <=> ~HandlesLinked)
    /\ call.op = "initialValues"
          => (call.status = "empty_handle" <=> IsEmpty(s0_))
    /\ call.op = "time"
          => (call.status = "empty_handle" <=> IsEmpty(riskFreeRate_))
    /\ call.op \in {"drift", "initialValues", "time"}
          => call.status \in {"ok", "empty_handle"}
    /\ call.op \in {"diffusion", "apply", "size"} => call.status = "ok"

C6_Witness ==
    /\ pc = "live"
    /\ IsEmpty(riskFreeRate_)
    /\ ~IsEmpty(dividendYield_)
    /\ IsEmpty(s0_)
    /\ call.op = "time"
    /\ call.status = "empty_handle"

\* the arrays among the arguments of the last call
ArraysOf(c) == IF c.op = "apply" THEN {c.args[1], c.args[2]} ELSE {c.args[2]}

\* C7: a call of drift, diffusion or apply with an array whose length is
\* not 2 is rejected with an error and produces no result.
C7_BadLengthRejected ==
    (call.op \in {"drift", "diffusion", "apply"}
        /\ \E x \in ArraysOf(call) : Len(x) # 2)
        => (call.status # "ok" /\ call.value = <<>>)

\* s * m * 2^(e - e0) as an integer
Scaled(a, e0) == IF IsZero(a) THEN 0 ELSE a.s * a.m * 2 ^ (a.e - e0)
\* the least exponent among finite Reals, 0 when all are zero
RECURSIVE MinExpOf(_)
MinExpOf(as) ==
    IF as = <<>> THEN 0
    ELSE LET r == MinExpOf(Tail(as))
             a == Head(as)
         IN  IF IsZero(a) THEN r
             ELSE IF \A i \in 1..Len(Tail(as)) : IsZero(Tail(as)[i]) THEN a.e
             ELSE IF a.e < r THEN a.e ELSE r
Abs(n) == IF n >= 0 THEN n ELSE -n
\* | a^2 + b^2 - c^2 | and c^2 in units of 2^(2 * e0), e0 the least exponent
SquaresGap(a, b, c) ==
    LET e0 == MinExpOf(<<a, b, c>>)
    IN  Abs(Scaled(a, e0) * Scaled(a, e0) + Scaled(b, e0) * Scaled(b, e0)
            - Scaled(c, e0) * Scaled(c, e0))
SquareOf(a, b, c) ==
    LET e0 == MinExpOf(<<a, b, c>>) IN Scaled(c, e0) * Scaled(c, e0)

\* rho is in [-1, 1]
RhoInRange == rho_.k = "fin" /\ (IsZero(rho_) \/ Top(rho_) <= 0
                                    \/ (rho_.m = 1 /\ rho_.e = 0))
\* the matrix C8 describes at state x
ExpectedDiffusion(x) ==
    LET sigma1 == FSqrt(Floored(x[2]))
    IN  << <<sigma1, Zero>>,
           <<FMul(rho_, FMul(sigma_, sigma1)),
             FMul(FSqrt(FSub(One, FMul(rho_, rho_))), FMul(sigma_, sigma1))>> >>

\* C8 as stated: for rho in [-1,1], M[1][0]^2 + M[1][1]^2 equals
\* (sigma*sigma1)^2.
C8_SquaresEqual ==
    (call.op = "diffusion" /\ IsState(call.args[2]) /\ RhoInRange)
        => SquaresGap(call.value[2][1], call.value[2][2],
                      FMul(sigma_, FSqrt(Floored(call.args[2][2])))) = 0

\* C8 amended: for rho in [-1,1], diffusion(t,x) is lower triangular with
\* M[0][0] = sigma1, M[0][1] = 0, M[1][0] = rho*(sigma*sigma1) and
\* M[1][1] = sqrt(1-rho^2)*(sigma*sigma1) in double arithmetic, sigma1 the
\* square root of x[1] floored at 0; M[1][0]^2 + M[1][1]^2 equals
\* (sigma*sigma1)^2 within floating-point tolerance (a relative error of at
\* most 16 units of the last place); the result does not depend on t.
C8_CorrelationDecomposition ==
    (call.op = "diffusion" /\ IsState(call.args[2]) /\ RhoInRange)
        => LET x  == call.args[2]
               s2 == FMul(sigma_, FSqrt(Floored(x[2])))
           IN  /\ call.status = "ok"
               /\ call.value = ExpectedDiffusion(x)
               /\ call.value[1][2] = Zero
               /\ SquaresGap(call.value[2][1], call.value[2][2], s2)
                      * 2 ^ (MantBits - 4)
                    <= SquareOf(call.value[2][1], call.value[2][2], s2)
               /\ \A t \in Times : diffusion(t, x, Zero).value = call.value

C8_Witness ==
    /\ call.op = "diffusion"
    /\ IsState(call.args[2])
    /\ rho_ = Mk(-1, 5, -3)
    /\ call.args[2][2] = Mk(1, 3, -2)
    /\ FLt0(call.value[2][1])
    /\ FGt0(call.value[2][2])
    /\ SquaresGap(call.value[2][1], call.value[2][2],
                  FMul(sigma_, FSqrt(call.args[2][2]))) # 0

\* C9: in a simulated path apply never clamps the variance (the new
\* variance is x0[1] + dx[1], negative or not); drift and diffusion take the
\* square root of max(x[1], 0), so the variance they use is never negative;
\* a step fails only for an empty handle, never for a negative variance;
\* while the variance is not positive the variance drift is kappa*theta.
C9_FullTruncation ==
    /\ (call.op = "evolve" /\ call.status = "ok")
          => LET x   == call.args[2]
                 dx  == call.args[3]
                 vol == FSqrt(Floored(x[2]))
                 d   == call.value[1]
                 M   == call.value[2]
                 x1  == call.value[3]
             IN  /\ x1[2] = FAdd(x[2], dx[2])
                 /\ path = x1
                 /\ ~FLt0(vol)
                 /\ ~FLt0(FMul(vol, vol))
                 /\ M[1][1] = vol
                 /\ d[2] = FMul(kappa_, FSub(theta_, FMul(vol, vol)))
                 /\ FLe0(x[2]) => (IsZero(vol) /\ d[2] = FMul(kappa_, theta_))
    /\ (call.op = "evolve" /\ call.status # "ok")
          => (call.status = "empty_handle" /\ ~HandlesLinked)
    /\ (call.op = "evolve" /\ HandlesLinked) => call.status = "ok"

C9_Witness ==
    /\ call.op = "evolve"
    /\ call.status = "ok"
    /\ FLt0(call.args[2][2])
    /\ FLt0(path[2])
    /\ call.value[1][2] = FMul(kappa_, theta_)

\* C10: size, initialValues, drift, diffusion, apply, time and the
\* accessors leave the parameters, the spot quote, the curve handles, the
\* registrations and their argument arrays unchanged and notify nobody; a
\* call repeated with the same arguments returns the same result.
C10_ReadOnly ==
    [][call'.op \in QueryOps
         => /\ UNCHANGED <<handles, params, registered, observers>>
            /\ notified' = {}
            /\ call'.after = call'.args
            /\ (call.op = call'.op /\ call.args = call'.args
                  /\ call.status = "ok" /\ call'.status = "ok")
                 => call'.value = call.value]_vars

C10_Witness ==
    /\ call.op = "apply"
    /\ call.status = "ok"
    /\ call.after = call.args
    /\ observers = Observers
    /\ notified = {}

====
